---- MODULE Spec2Model ----
(***************************************************************************)
(* A model of the geometry engine of hyperspace-explorer: the generators   *)
(* of src/lib/utils/geometry.ts and src/lib/utils/mathGeometry.ts (and the *)
(* later revision of geometry.ts kept in unnamed/part_005), each as a      *)
(* state machine that steps through the generator's loops and fills the    *)
(* vertex and index buffers exactly as the code does.                      *)
(*                                                                         *)
(* One call is modelled at a time: `call` is the request, `gen` the        *)
(* generator the dispatcher chose, `pc` the position inside it, `i` the    *)
(* outer loop counter, `vertices`/`indices` the buffers being filled,      *)
(* `group` the list of sub-meshes of a THREE.Group result and `prev` the   *)
(* mesh returned by the previous call of the same request.  `store` is    *)
(* the application store the controls write and `scene` the state of the  *)
(* scene component; the generators touch neither.                          *)
(***************************************************************************)
EXTENDS Integers, Sequences, FiniteSets, TLC

VARIABLES call, gen, pc, i, vertices, indices, group, prev, store, scene

vars == <<call, gen, pc, i, vertices, indices, group, prev, store, scene>>

(***************************************************************************)
(* Small helpers                                                           *)
(***************************************************************************)
RECURSIVE Pow(_, _)
Pow(b, e) == IF e = 0 THEN 1 ELSE b * Pow(b, e - 1)

Min(a, b) == IF a < b THEN a ELSE b

Max(a, b) == IF a > b THEN a ELSE b

\* The elements of a sequence, as a set.
Range(s) == {s[k] : k \in 1..Len(s)}

\* An index buffer read as a line list: the k-th pair (0-based vertex indices).
LinePair(buf, k) == <<buf[2 * k - 1], buf[2 * k]>>

\* An index buffer read as a triangle list: the k-th triple.
Triangle(buf, k) == <<buf[3 * k - 2], buf[3 * k - 1], buf[3 * k]>>

\* The mesh a call returns.
Mesh == [vertices |-> vertices, indices |-> indices, group |-> group]

NoMesh == [vertices |-> <<>>, indices |-> <<>>, group |-> <<>>]

(***************************************************************************)
(* geometry.ts: countBits and the bit operations it is used with           *)
(***************************************************************************)
\* function countBits(n): while (n) { count += n & 1; n >>= 1 }
RECURSIVE countBits(_)
countBits(n) == IF n = 0 THEN 0 ELSE (n % 2) + countBits(n \div 2)

\* i ^ j on non-negative integers.
RECURSIVE XOR(_, _)
XOR(a, b) ==
  IF a = 0 /\ b = 0 THEN 0
  ELSE (((a % 2) + (b % 2)) % 2) + 2 * XOR(a \div 2, b \div 2)

\* (i & 2^k) ? size : -size, with size = 2
Coord(idx, k) == IF (idx \div Pow(2, k)) % 2 = 1 THEN 2 ELSE -2

(***************************************************************************)
(* The n-cube generators.  geometry.ts has createHyperCube (4D) and        *)
(* create5DHyperCube .. create10DHyperCube; part_005 has a createHyperCube *)
(* that also emits the six faces of the base cube into the same index      *)
(* buffer.  There is no 3D generator.                                      *)
(***************************************************************************)
CubeGens == {"createHyperCube", "create5DHyperCube", "create6DHyperCube",
             "create7DHyperCube", "create8DHyperCube", "create9DHyperCube",
             "create10DHyperCube"}

\* The dimension each generator enumerates: its loop runs to Math.pow(2, n).
Dim(g) ==
  CASE g = "createHyperCube"    -> 4
    [] g = "create5DHyperCube"  -> 5
    [] g = "create6DHyperCube"  -> 6
    [] g = "create7DHyperCube"  -> 7
    [] g = "create8DHyperCube"  -> 8
    [] g = "create9DHyperCube"  -> 9
    [] g = "create10DHyperCube" -> 10

\* The additive constant of the 4-cube kept in every dimension.
DivisorOffsetOfFourCube(g) == 4

\* The additive constant of the perspective divisor: w + 4, w + v + 6,
\* w + v + u + 8, .. , w + v + u + t + s + r + q + 16.
DivisorOffset(g) ==
  CASE g = "createHyperCube"    -> 4
    [] g = "create5DHyperCube"  -> 6
    [] g = "create6DHyperCube"  -> 8
    [] g = "create7DHyperCube"  -> 10
    [] g = "create8DHyperCube"  -> 12
    [] g = "create9DHyperCube"  -> 14
    [] g = "create10DHyperCube" -> 16

\* The sum of the coordinates of the axes 4..n of vertex idx.
RECURSIVE ExtraAxes(_, _, _)
ExtraAxes(idx, k, n) ==
  IF k >= n THEN 0 ELSE Coord(idx, k) + ExtraAxes(idx, k + 1, n)

\* The divisor of vertex idx: scale = 1 / Divisor.
Divisor(g, idx) == ExtraAxes(idx, 3, Dim(g)) + DivisorOffset(g)

\* vertices.push(x * scale, y * scale, z * scale): the vertex is kept as
\* <<x, y, z, d>>, standing for the point (x/d, y/d, z/d).
CubeVertex(g, idx) ==
  <<Coord(idx, 0), Coord(idx, 1), Coord(idx, 2), Divisor(g, idx)>>

\* The inner loop with the test loosened to countBits(i ^ j) <= 2.
EdgesFromUpToTwoBits(a, first, n) ==
  LET cand == [k \in 1..(n - first) |-> first + k - 1]
      hit(j) == countBits(XOR(a, j)) <= 2
      js == SelectSeq(cand, hit)
  IN  [k \in 1..(2 * Len(js)) |-> IF k % 2 = 1 THEN a ELSE js[k \div 2]]

\* The inner loop of the edge pass for one i:
\* for (j = i + 1; j < vertices.length / 3; j++) if (countBits(i ^ j) === 1) push(i, j)
EdgesFrom(a, first, n) ==
  LET cand == [k \in 1..(n - first) |-> first + k - 1]
      hit(j) == countBits(XOR(a, j)) = 1
      js == SelectSeq(cand, hit)
  IN  [k \in 1..(2 * Len(js)) |-> IF k % 2 = 1 THEN a ELSE js[k \div 2]]

\* part_005 createHyperCube: faceIndices, two triangles per face.
faceIndices == << <<0, 1, 2, 3>>, <<4, 5, 6, 7>>, <<0, 1, 5, 4>>,
                  <<2, 3, 7, 6>>, <<0, 3, 7, 4>>, <<1, 2, 6, 5>> >>

RECURSIVE FaceTriangles(_)
FaceTriangles(k) ==
  IF k > Len(faceIndices) THEN <<>>
  ELSE LET face == faceIndices[k]
       IN  <<face[1], face[2], face[3], face[1], face[3], face[4]>>
           \o FaceTriangles(k + 1)

(***************************************************************************)
(* createGeometry: the dispatch entry point.                               *)
(***************************************************************************)
\* The kinds the n-cube specification requests: the seven n-cube kinds and
\* two kinds naming a dimension outside the range the switch knows.
CubeKinds == {"hyperCube", "hyper5D", "hyper6D", "hyper7D", "hyper8D",
              "hyper9D", "hyper10D"}

UnknownKinds == {"hyper3D", "hyper11D"}

Versions == {"geometry.ts", "part_005"}

\* switch (type) { case 'hyperCube': ... default: console.warn(..); return
\* createHyperCube(complexity) }.  geometry.ts has the cases hyper5D ..
\* hyper10D, dmtTunnel and soundResonance and no case for the kinds of
\* mathGeometry.ts; part_005 has hopfFibration, the cases of mathGeometry.ts
\* and kochSnowflake, and none for hyper5D .. hyper10D, dmtTunnel and
\* soundResonance.
Route(version, type) ==
  CASE type = "hyperCube" -> "createHyperCube"
    [] type = "mandala" -> "createMandala"
    [] type = "vortex" -> "createVortex"
    [] type = "neuronal" -> "createNeuronal"
    [] type = "tesseract" -> "createTesseract"
    [] type = "hypersphere" -> "createHypersphere"
    [] type = "fractal" -> "createFractal"
    [] type = "quantumField" -> "createQuantumField"
    [] type = "hyper5D"  /\ version = "geometry.ts" -> "create5DHyperCube"
    [] type = "dmtTunnel" /\ version = "geometry.ts" -> "createDMTTunnel"
    [] type = "soundResonance" /\ version = "geometry.ts"
         -> "createSoundResonance"
    [] type = "hyper6D"  /\ version = "geometry.ts" -> "create6DHyperCube"
    [] type = "hyper7D"  /\ version = "geometry.ts" -> "create7DHyperCube"
    [] type = "hyper8D"  /\ version = "geometry.ts" -> "create8DHyperCube"
    [] type = "hyper9D"  /\ version = "geometry.ts" -> "create9DHyperCube"
    [] type = "hyper10D" /\ version = "geometry.ts" -> "create10DHyperCube"
    [] type = "hopfFibration" /\ version = "part_005" -> "createHopfFibration"
    [] type = "goldenSpiral" /\ version = "part_005" -> "createGoldenSpiral"
    [] type = "piSpiral"     /\ version = "part_005" -> "createPiSpiral"
    [] type = "kleinBottle"  /\ version = "part_005" -> "createKleinBottle"
    [] type = "mobiusStrip"  /\ version = "part_005" -> "createMobiusStrip"
    [] type = "torusKnot"    /\ version = "part_005" -> "createTorusKnot"
    [] type = "kochSnowflake" /\ version = "part_005" -> "createKochSnowflake"
    [] OTHER -> "createHyperCube"

\* The store's defaults: complexity 5, symmetry 8.
DefaultComplexity == 5

DefaultSymmetry == 8

\* const initialState: AppState (speed is kept in tenths)
initialState ==
  [geometryType |-> "hyperCube", colorMode |-> "spectralShift",
   complexity |-> DefaultComplexity, symmetry |-> DefaultSymmetry,
   isPlaying |-> TRUE, speed |-> 10, dimensionMode |-> "3D",
   showAnnotations |-> TRUE, autoRotateDimensions |-> FALSE]

\* The scene component is not mounted while a generator is called on its own.
NoScene == [mounted |-> FALSE]

InitCube ==
  /\ call \in [version : Versions, type : CubeKinds \cup UnknownKinds,
                complexity : {DefaultComplexity}, symmetry : {DefaultSymmetry}]
  /\ gen = "none"
  /\ pc = "call"
  /\ i = 0
  /\ vertices = <<>>
  /\ indices = <<>>
  /\ group = <<>>
  /\ prev = NoMesh
  /\ store = initialState
  /\ scene = NoScene

\* createGeometry(type, complexity, symmetry): route to the generator.
Dispatch ==
  /\ pc = "call"
  /\ gen' = Route(call.version, call.type)
  /\ pc' = "vertices"
  /\ i' = 0
  /\ UNCHANGED <<call, vertices, indices, group, prev, store, scene>>

\* One iteration of the vertex loop: for (i = 0; i < Math.pow(2, n); i++).
CubeVertexStep ==
  /\ pc = "vertices"
  /\ gen \in CubeGens
  /\ i < Pow(2, Dim(gen))
  /\ vertices' = Append(vertices, CubeVertex(gen, i))
  /\ i' = i + 1
  /\ UNCHANGED <<call, gen, pc, indices, group, prev, store, scene>>

\* The vertex loop ends; part_005 createHyperCube pushes the face triangles
\* into `indices` before the edge loop starts.
CubeFaces ==
  /\ pc = "vertices"
  /\ gen \in CubeGens
  /\ i = Pow(2, Dim(gen))
  /\ indices' = IF call.version = "part_005" THEN FaceTriangles(1) ELSE <<>>
  /\ pc' = "edges"
  /\ i' = 0
  /\ UNCHANGED <<call, gen, vertices, group, prev, store, scene>>

\* One iteration of the outer edge loop.
CubeEdgeStep ==
  /\ pc = "edges"
  /\ i < Len(vertices)
  /\ indices' = indices \o EdgesFrom(i, i + 1, Len(vertices))
  /\ i' = i + 1
  /\ UNCHANGED <<call, gen, pc, vertices, group, prev, store, scene>>

\* setAttribute / setIndex / return geometry.
CubeReturn ==
  /\ pc = "edges"
  /\ i = Len(vertices)
  /\ pc' = "done"
  /\ UNCHANGED <<call, gen, i, vertices, indices, group, prev, store, scene>>

NextCube == Dispatch \/ CubeVertexStep \/ CubeFaces \/ CubeEdgeStep \/ CubeReturn

SpecCube == InitCube /\ [][NextCube]_vars

(***************************************************************************)
(* createFractal: the Sierpinski tetrahedron.                              *)
(*                                                                         *)
(* Lengths are kept exact: x and y in units of the leaf size, z in units   *)
(* of leafSize * sqrt(2/3) / 3, so that h = size * sqrt(2/3) is 3 * size   *)
(* and h / 3 is size.                                                      *)
(***************************************************************************)
\* The leaf of addTetrahedron (depth <= 0).  The local array `vertices`
\* holds the 12 coordinates of the 4 corners, and baseIndex is
\* vertices.length / 3 of that local array.
LeafTetrahedron(x, y, z, size) ==
  LET h == 3 * size
      verts == << <<x, y, z + h>>,
                  <<x - size, y - size, z - (h \div 3)>>,
                  <<x + size, y - size, z - (h \div 3)>>,
                  <<x, y + size, z - (h \div 3)>> >>
      baseIndex == Len(verts)
  IN  [vertices |-> verts,
       faces |-> <<baseIndex, baseIndex + 1, baseIndex + 2,
                   baseIndex, baseIndex + 2, baseIndex + 3,
                   baseIndex, baseIndex + 3, baseIndex + 1,
                   baseIndex + 1, baseIndex + 3, baseIndex + 2>>]

\* A merge that loses the fourth child (a plausible slip in the spread).
MergeTetrahedraDropsChild(r1, r2, r3, r4) ==
  [vertices |-> r1.vertices \o r2.vertices \o r3.vertices,
   faces |-> r1.faces \o r2.faces \o r3.faces]

\* faces.map(f => f + offset)
OffsetFaces(faces, offset) == [k \in 1..Len(faces) |-> faces[k] + offset]

\* The merge of the four children of addTetrahedron.
MergeTetrahedra(r1, r2, r3, r4) ==
  [vertices |-> r1.vertices \o r2.vertices \o r3.vertices \o r4.vertices,
   faces |-> r1.faces
             \o OffsetFaces(r2.faces, Len(r1.vertices))
             \o OffsetFaces(r3.faces, Len(r1.vertices) + Len(r2.vertices))
             \o OffsetFaces(r4.faces, Len(r1.vertices) + Len(r2.vertices)
                                      + Len(r3.vertices))]

RECURSIVE addTetrahedron(_, _, _, _, _)
addTetrahedron(x, y, z, size, depth) ==
  IF depth <= 0 THEN LeafTetrahedron(x, y, z, size)
  ELSE LET newSize == size \div 2
           h == 3 * newSize
       IN  MergeTetrahedra(
             addTetrahedron(x, y, z + h, newSize, depth - 1),
             addTetrahedron(x - newSize, y - newSize, z - (h \div 3), newSize, depth - 1),
             addTetrahedron(x + newSize, y - newSize, z - (h \div 3), newSize, depth - 1),
             addTetrahedron(x, y + newSize, z - (h \div 3), newSize, depth - 1))

\* const depth = Math.min(complexity, 4)
FractalDepth(complexity) == Min(complexity, 4)

\* addTetrahedron(0, 0, 0, 2, depth): the size 2 is Pow(2, depth) leaf sizes.
createFractal(complexity) ==
  LET depth == FractalDepth(complexity)
  IN  addTetrahedron(0, 0, 0, Pow(2, Max(depth, 0)), depth)

(***************************************************************************)
(* mathGeometry.ts: the parametric curves and surfaces.  A vertex is kept  *)
(* as the tuple of loop counters it was sampled at; the generators' loops  *)
(* decide how many there are and which indices refer to them.              *)
(***************************************************************************)
\* Math.PI.toString().replace('.', ''): the 16 digits of 3.141592653589793
PiDigitCount == 16

\* createGoldenSpiral(turns, pointsPerTurn = 100): totalPoints;
\* createPiSpiral(digits): piDigits.length after slice(0, digits).
SpiralPoints(g, complexity) ==
  IF g = "createGoldenSpiral" THEN complexity * 100
  ELSE Min(Max(complexity, 0), PiDigitCount)

\* Both spirals: indices.push(i, i + 1, i + 2); indices.push(i + 1, i + 3, i + 2)
SpiralIndexRow(r) == <<r, r + 1, r + 2, r + 1, r + 3, r + 2>>

\* createKleinBottle: u_steps = v_steps = Math.max(segments * 4, 32)
KleinSteps(segments) == Max(segments * 4, 32)

\* The quads of one row of the Klein bottle grid, two triangles each:
\* a = i * v_steps + j, b = a + 1, c = (i + 1) * v_steps + j, d = c + 1
KleinIndexRow(r, v_steps) ==
  [k \in 1..(6 * (v_steps - 1)) |->
     LET j == (k - 1) \div 6
         a == r * v_steps + j
         b == a + 1
         c == (r + 1) * v_steps + j
         d == c + 1
     IN  <<a, b, c, b, d, c>>[((k - 1) % 6) + 1]]

\* The inner loop written with < instead of <=.
MobiusWidthSamplesExclusive(segments) == segments \div 4

\* createMobiusStrip: for (j = 0; j <= segments / 4; j++)
MobiusWidthSamples(segments) == (segments \div 4) + 1

\* createTorusKnot(p, q = 2, segments = 128): the dispatcher passes the
\* complexity as p and leaves segments at its default.
TorusKnotSegments == 128

MeshGens == {"createGoldenSpiral", "createPiSpiral", "createKleinBottle",
             "createMobiusStrip", "createTorusKnot"}

\* The number of iterations of the generator's outer vertex loop.
VertexRows(g, complexity) ==
  CASE g \in {"createGoldenSpiral", "createPiSpiral"} -> SpiralPoints(g, complexity)
    [] g = "createKleinBottle" -> KleinSteps(complexity)
    [] g = "createMobiusStrip" -> complexity + 1
    [] g = "createTorusKnot" -> TorusKnotSegments + 1

\* The number of vertices one iteration of the outer loop pushes.
VertexRowLen(g, complexity) ==
  CASE g = "createKleinBottle" -> KleinSteps(complexity)
    [] g = "createMobiusStrip" -> MobiusWidthSamples(complexity)
    [] OTHER -> 1

\* The vertices iteration r of the outer loop pushes.
VertexRow(g, complexity, r) ==
  [j \in 1..VertexRowLen(g, complexity) |-> <<r, j - 1>>]

\* The number of iterations of the generator's outer index loop: the
\* spirals run to totalPoints - 1, the Klein bottle to u_steps - 1; the
\* Moebius strip and the torus knot set no index.
IndexRows(g, complexity, nverts) ==
  CASE g \in {"createGoldenSpiral", "createPiSpiral"} -> Max(nverts - 1, 0)
    [] g = "createKleinBottle" -> KleinSteps(complexity) - 1
    [] OTHER -> 0

IndexRow(g, complexity, r) ==
  IF g = "createKleinBottle" THEN KleinIndexRow(r, KleinSteps(complexity))
  ELSE SpiralIndexRow(r)

(***************************************************************************)
(* part_005: createKochSnowflake.  The mesh is kept cluster by cluster in  *)
(* `group`: a cluster records the recursion level it was created at, the   *)
(* number of createSpike calls made for it and the numbers of vertices and *)
(* indices those calls pushed; the jittered coordinates are not kept.      *)
(***************************************************************************)
\* The depth passed on without the clamp.
KochDepthUnclamped(complexity) == complexity

\* const depth = Math.min(complexity, 5)
KochDepth(complexity) == Min(complexity, 5)

\* The number of secondary spikes without the complexity term.
KochNumSpikesFixed(complexity) == 4

\* const numSpikes = 4 + Math.floor(complexity / 2)
KochNumSpikes(complexity) == 4 + (complexity \div 2)

\* createSpike: vertices.push(4 base vertices, tip) and indices.push(2 base
\* triangles, 4 side triangles).
SpikeVertices == 5

SpikeIndices == 18

\* The base case of createKochSegment: createSpike for the main spike, then
\* for (i = 0; i < numSpikes; i++) createSpike(..).
KochCluster(side, level, complexity) ==
  LET spikes == 1 + KochNumSpikes(complexity)
  IN  [kind |-> "cluster", side |-> side, level |-> level, spikes |-> spikes,
       vertexCount |-> SpikeVertices * spikes,
       indexCount |-> SpikeIndices * spikes]

\* createKochSegment(x1, y1, x2, y2, depth): the clusters it creates, in
\* order; at depth 0 one cluster, else the four sub-segments at depth - 1.
RECURSIVE createKochSegment(_, _, _, _)
createKochSegment(side, level, depth, complexity) ==
  IF depth = 0 THEN << KochCluster(side, level, complexity) >>
  ELSE createKochSegment(side, level + 1, depth - 1, complexity)
       \o createKochSegment(side, level + 1, depth - 1, complexity)
       \o createKochSegment(side, level + 1, depth - 1, complexity)
       \o createKochSegment(side, level + 1, depth - 1, complexity)

\* The three sides of the snowflake at the clamped depth.
createKochSnowflake(complexity) ==
  LET depth == KochDepth(complexity)
  IN  createKochSegment(1, 0, depth, complexity)
      \o createKochSegment(2, 0, depth, complexity)
      \o createKochSegment(3, 0, depth, complexity)

(***************************************************************************)
(* The specification of the fractal, curve and surface generators: one     *)
(* call of createGeometry per behaviour.                                   *)
(***************************************************************************)
\* The largest complexity requested (the slider runs from 1 to 10).
MaxComplexity == 6

MeshKinds == {"goldenSpiral", "piSpiral", "kleinBottle", "mobiusStrip",
              "torusKnot", "fractal", "kochSnowflake"}

InitMesh ==
  /\ call \in [version : {"part_005"}, type : MeshKinds,
               complexity : 0..MaxComplexity, symmetry : {DefaultSymmetry}]
          \cup [version : {"geometry.ts"}, type : {"fractal"},
                complexity : 0..MaxComplexity, symmetry : {DefaultSymmetry}]
  /\ gen = "none"
  /\ pc = "call"
  /\ i = 0
  /\ vertices = <<>>
  /\ indices = <<>>
  /\ group = <<>>
  /\ prev = NoMesh
  /\ store = initialState
  /\ scene = NoScene

\* createFractal: the whole recursion, then setAttribute('position', ..)
\* and setIndex(result.faces).
FractalRun ==
  /\ pc = "vertices"
  /\ gen = "createFractal"
  /\ LET result == createFractal(call.complexity)
     IN  /\ vertices' = result.vertices
         /\ indices' = result.faces
  /\ pc' = "done"
  /\ UNCHANGED <<call, gen, i, group, prev, store, scene>>

\* createKochSnowflake: the whole recursion, then setAttribute('position', ..)
\* and setIndex(indices); the buffers are kept cluster by cluster.
KochRun ==
  /\ pc = "vertices"
  /\ gen = "createKochSnowflake"
  /\ group' = createKochSnowflake(call.complexity)
  /\ pc' = "done"
  /\ UNCHANGED <<call, gen, i, vertices, indices, prev, store, scene>>

\* One iteration of the outer vertex loop of a curve or surface generator.
MeshVertexStep ==
  /\ pc = "vertices"
  /\ gen \in MeshGens
  /\ i < VertexRows(gen, call.complexity)
  /\ vertices' = vertices \o VertexRow(gen, call.complexity, i)
  /\ i' = i + 1
  /\ UNCHANGED <<call, gen, pc, indices, group, prev, store, scene>>

\* The vertex loop ends and the index loop starts.
MeshVerticesDone ==
  /\ pc = "vertices"
  /\ gen \in MeshGens
  /\ ~(i < VertexRows(gen, call.complexity))
  /\ pc' = "indices"
  /\ i' = 0
  /\ UNCHANGED <<call, gen, vertices, indices, group, prev, store, scene>>

\* One iteration of the outer index loop.
MeshIndexStep ==
  /\ pc = "indices"
  /\ i < IndexRows(gen, call.complexity, Len(vertices))
  /\ indices' = indices \o IndexRow(gen, call.complexity, i)
  /\ i' = i + 1
  /\ UNCHANGED <<call, gen, pc, vertices, group, prev, store, scene>>

\* setAttribute / setIndex / return geometry.
MeshReturn ==
  /\ pc = "indices"
  /\ ~(i < IndexRows(gen, call.complexity, Len(vertices)))
  /\ pc' = "done"
  /\ UNCHANGED <<call, gen, i, vertices, indices, group, prev, store, scene>>

NextMesh ==
  \/ Dispatch
  \/ FractalRun
  \/ KochRun
  \/ MeshVertexStep
  \/ MeshVerticesDone
  \/ MeshIndexStep
  \/ MeshReturn

SpecMesh == InitMesh /\ [][NextMesh]_vars

(***************************************************************************)
(* Claims about the returned buffers                                       *)
(***************************************************************************)
\* Every value of an index buffer names a vertex of the position buffer.
IndicesInBounds(buf, nverts) ==
  \A k \in 1..Len(buf) : buf[k] >= 0 /\ buf[k] < nverts

\* C2: in every returned mesh every value of the index buffer is a valid
\* vertex index, at least 0 and less than the number of vertices.
C2_IndicesValid ==
  pc = "done" => IndicesInBounds(indices, Len(vertices))

\* C3: for every depth 0..4 every face index of the Sierpinski mesh is at
\* least 0 and less than the mesh's vertex count.
C3_SierpinskiIndicesInBounds ==
  (pc = "done" /\ gen = "createFractal") =>
    IndicesInBounds(indices, Len(vertices))

\* C4: at depth d the Sierpinski generator emits 4^d leaf tetrahedra of 4
\* vertices and 4 triangular faces each: 4 * 4^d vertices and 4 * 4^d faces
\* (12 * 4^d face indices).
C4_SierpinskiCounts ==
  (pc = "done" /\ gen = "createFractal") =>
    LET d == Max(FractalDepth(call.complexity), 0)
    IN  /\ Len(vertices) = 4 * Pow(4, d)
        /\ Len(indices) = 3 * 4 * Pow(4, d)

\* C4 witness: a Sierpinski mesh of depth 4 (256 leaves) has been returned.
C4_Witness ==
  /\ pc = "done"
  /\ gen = "createFractal"
  /\ FractalDepth(call.complexity) = 4
  /\ Len(vertices) = 1024

\* C10: the Klein bottle returns U * V vertices for its u_steps by v_steps
\* grid, the Moebius strip (segments + 1) * (floor(segments / 4) + 1) for its
\* grid of samples, and the torus knot segments + 1.
C10_VertexCounts ==
  pc = "done" =>
    /\ gen = "createKleinBottle" =>
         Len(vertices) = KleinSteps(call.complexity) * KleinSteps(call.complexity)
    /\ gen = "createMobiusStrip" =>
         Len(vertices) = (call.complexity + 1) * ((call.complexity \div 4) + 1)
    /\ gen = "createTorusKnot" => Len(vertices) = 128 + 1

\* C10 witness: the Moebius strip of 5 segments has returned its 6 by 2 grid.
C10_Witness ==
  /\ pc = "done"
  /\ gen = "createMobiusStrip"
  /\ call.complexity = 5
  /\ Len(vertices) = 12

(***************************************************************************)
(* createJuliaSet(complexity, c, resolution, bounds).                      *)
(*                                                                         *)
(* The arithmetic is exact: a grid coordinate is a number of halves, and   *)
(* an iterate is a triple of numerators over a denominator that squares    *)
(* with every application of the map (2, 4, 16, 256, ..).  The requests    *)
(* take c in halves and a step that is a whole number of halves, so the    *)
(* floating-point sums x += step of the code are exact as well.            *)
(***************************************************************************)
\* for (x = -bounds; x < bounds; x += step) with step = (bounds * 2) /
\* resolution: the values x takes, in halves.  A resolution of 0 makes the
\* step Infinity: the loop body runs once, at -bounds.
AxisSamples(bounds, resolution) ==
  IF resolution = 0 THEN << -2 * bounds >>
  ELSE LET step == (4 * bounds) \div resolution
       IN  [k \in 1..resolution |-> -2 * bounds + (k - 1) * step]

\* if (x2 + y2 + z2 > 4): the escape test on an iterate pt / den.
Escaped(pt, den) ==
  pt[1] * pt[1] + pt[2] * pt[2] + pt[3] * pt[3] > 4 * den * den

\* newX = x2 - y2 - z2 + c[0]; newY = 2xy + c[1]; newZ = 2xz, over den * den.
JuliaMap(pt, den, c) ==
  << pt[1] * pt[1] - pt[2] * pt[2] - pt[3] * pt[3] + c[1] * ((den * den) \div 2),
     2 * pt[1] * pt[2] + c[2] * ((den * den) \div 2),
     2 * pt[1] * pt[3] >>

\* A loop that tests the iterate after updating it instead of before.
RECURSIVE JuliaLoopTestsAfterUpdate(_, _, _, _, _)
JuliaLoopTestsAfterUpdate(pt, den, iterations, complexity, c) ==
  IF ~(iterations < complexity) THEN FALSE
  ELSE LET next == JuliaMap(pt, den, c)
       IN  IF Escaped(next, den * den) THEN TRUE
           ELSE JuliaLoopTestsAfterUpdate(next, den * den, iterations + 1, complexity, c)

\* while (iterations < complexity && !escaped) { if (x2 + y2 + z2 > 4)
\* { escaped = true; continue } currentZ.set(..); iterations++ }: the value
\* of `escaped` when the loop ends.
RECURSIVE JuliaLoop(_, _, _, _, _)
JuliaLoop(pt, den, iterations, complexity, c) ==
  IF ~(iterations < complexity) THEN FALSE
  ELSE IF Escaped(pt, den) THEN TRUE
  ELSE JuliaLoop(JuliaMap(pt, den, c), den * den, iterations + 1, complexity, c)

\* The voxels of one x slab that are kept: if (!escaped) points.push(z0).
JuliaSlab(x, req) ==
  LET axis == AxisSamples(req.bounds, req.resolution)
      n == Len(axis)
      cells == [k \in 1..(n * n) |->
                  <<x, axis[((k - 1) \div n) + 1], axis[((k - 1) % n) + 1]>>]
      kept(p) == ~JuliaLoop(p, 2, 0, req.complexity, req.c)
  IN  SelectSeq(cells, kept)

\* The largest iteration count requested.
MaxIterations == 2

\* c, in halves: (-1/2, 1/2), (0, 0) and (-1, 0).
JuliaConstants == {<<-1, 1>>, <<0, 0>>, <<-2, 0>>}

\* The resolutions divide 4 * bounds, so the step is a whole number of halves.
JuliaRequests ==
  [complexity : 1..MaxIterations, c : JuliaConstants,
   resolution : {0, 1, 2, 4}, bounds : {1, 2}]

InitJulia ==
  /\ call \in JuliaRequests
  /\ gen = "createJuliaSet"
  /\ pc = "vertices"
  /\ i = 0
  /\ vertices = <<>>
  /\ indices = <<>>
  /\ group = <<>>
  /\ prev = NoMesh
  /\ store = initialState
  /\ scene = NoScene

\* One iteration of the outer loop over x.
JuliaSlabStep ==
  /\ pc = "vertices"
  /\ gen = "createJuliaSet"
  /\ i < Len(AxisSamples(call.bounds, call.resolution))
  /\ vertices' = vertices \o JuliaSlab(AxisSamples(call.bounds, call.resolution)[i + 1], call)
  /\ i' = i + 1
  /\ UNCHANGED <<call, gen, pc, indices, group, prev, store, scene>>

\* The grid is exhausted: setAttribute('position', points); return geometry.
JuliaReturn ==
  /\ pc = "vertices"
  /\ gen = "createJuliaSet"
  /\ i = Len(AxisSamples(call.bounds, call.resolution))
  /\ pc' = "done"
  /\ UNCHANGED <<call, gen, i, vertices, indices, group, prev, store, scene>>

NextJulia == JuliaSlabStep \/ JuliaReturn

SpecJulia == InitJulia /\ [][NextJulia]_vars

(***************************************************************************)
(* Claims about the Julia-set sampler                                      *)
(***************************************************************************)
\* The k-th iterate of the map from the grid point p, with its denominator.
RECURSIVE Iterate(_, _, _)
Iterate(p, k, c) ==
  IF k = 0 THEN [pt |-> p, den |-> 2]
  ELSE LET before == Iterate(p, k - 1, c)
       IN  [pt |-> JuliaMap(before.pt, before.den, c),
            den |-> before.den * before.den]

\* Iterate k of p exceeds the escape radius.
IterateEscapes(p, k, c) ==
  LET z == Iterate(p, k, c) IN Escaped(z.pt, z.den)

\* p lies in the closed cube [-bounds, bounds]^3 (coordinates in halves).
InCube(p, bounds) ==
  \A a \in 1..3 : p[a] >= -2 * bounds /\ p[a] <= 2 * bounds

\* Every cell of the grid, as a set.
GridCells(req) ==
  LET axis == Range(AxisSamples(req.bounds, req.resolution))
  IN  {<<x, y, z>> : x \in axis, y \in axis, z \in axis}

\* C8 as stated: every returned point lies in [-bounds, bounds]^3 and none
\* of its iterates z_0 .. z_maxIterations (the start point and every result
\* of the map that was computed) exceeds the escape radius.
C8_NoComputedIterateEscapes ==
  (pc = "done" /\ gen = "createJuliaSet") =>
    \A p \in Range(vertices) :
      /\ InCube(p, call.bounds)
      /\ \A k \in 0..call.complexity : ~IterateEscapes(p, k, call.c)

\* C8 as amended: every returned point lies in [-bounds, bounds]^3, and
\* the returned points are exactly the grid points none of whose iterates
\* z_0 .. z_(maxIterations - 1) exceeds the escape radius; the last iterate
\* computed, z_maxIterations, is not tested.
C8_TestedIteratesDoNotEscape ==
  (pc = "done" /\ gen = "createJuliaSet") =>
    /\ \A p \in Range(vertices) : InCube(p, call.bounds)
    /\ Range(vertices) =
         {p \in GridCells(call) :
            \A k \in 0..(call.complexity - 1) : ~IterateEscapes(p, k, call.c)}

\* C8 witness: a sampler run with two iterations over a 4 x 4 x 4 grid has
\* returned some points and dropped others.
C8_Witness ==
  /\ pc = "done"
  /\ gen = "createJuliaSet"
  /\ call.complexity = 2
  /\ call.resolution = 4
  /\ Len(vertices) > 0
  /\ Len(vertices) < 64

(***************************************************************************)
(* mathGeometry.ts: the Hopf fibration generators.                         *)
(*                                                                         *)
(* A floating-point number is kept as its class: "zero", "one" (exactly    *)
(* 1), "fin" (finite, neither 0 nor 1), "inf" (+-Infinity) or "nan".  The  *)
(* classes decide everything the generators test: isNaN, 1 - w = 0 and     *)
(* 0 / 0.  Products, sums and differences of "fin" values are taken to     *)
(* stay "fin" (no underflow, overflow or exact cancellation).              *)
(***************************************************************************)
Float == {"zero", "one", "fin", "inf", "nan"}

\* The classes a sine or a cosine takes.
Trig == {"zero", "one", "fin"}

Mul ==
  [a \in Float, b \in Float |->
    CASE a = "nan" \/ b = "nan" -> "nan"
      [] (a = "zero" /\ b = "inf") \/ (a = "inf" /\ b = "zero") -> "nan"
      [] a = "zero" \/ b = "zero" -> "zero"
      [] a = "inf" \/ b = "inf" -> "inf"
      [] a = "one" -> b
      [] b = "one" -> a
      [] OTHER -> "fin"]

Add ==
  [a \in Float, b \in Float |->
    CASE a = "nan" \/ b = "nan" -> "nan"
      [] a = "inf" \/ b = "inf" -> "inf"
      [] a = "zero" -> b
      [] b = "zero" -> a
      [] OTHER -> "fin"]

Sub ==
  [a \in Float, b \in Float |->
    CASE a = "nan" \/ b = "nan" -> "nan"
      [] a = "inf" /\ b = "inf" -> "nan"
      [] a = "inf" \/ b = "inf" -> "inf"
      [] b = "zero" -> a
      [] a = "one" /\ b = "one" -> "zero"
      [] OTHER -> "fin"]

Div ==
  [a \in Float, b \in Float |->
    CASE a = "nan" \/ b = "nan" -> "nan"
      [] a = "zero" /\ b = "zero" -> "nan"
      [] a = "inf" /\ b = "inf" -> "nan"
      [] b = "zero" -> "inf"
      [] a = "zero" \/ b = "inf" -> "zero"
      [] a = "inf" -> "inf"
      [] b = "one" -> a
      [] OTHER -> "fin"]

\* Math.sqrt keeps the class.
Sqrt == [a \in Float |-> a]

isNaN(a) == a = "nan"

IsFinite(a) == a \in {"zero", "one", "fin"}

\* sin and cos of phase = (j / pointsPerFiber) * TAU: sin(0) is 0 and
\* cos(0) is 1; at a quarter turn sin is exactly 1 and cos is 6.1e-17; at
\* a full turn cos is exactly 1 and sin is -2.4e-16.
SinPhase(j, n) ==
  CASE j = 0 -> "zero"
    [] 4 * j = n -> "one"
    [] OTHER -> "fin"

CosPhase(j, n) ==
  CASE j = 0 \/ j = n -> "one"
    [] OTHER -> "fin"

\* The sines and cosines of the base point of a fiber.
Base == [sinPhi : Trig, cosPhi : Trig, sinTheta : Trig, cosTheta : Trig]

\* The base point of fiber i of `fibers`: t = i / fibers,
\* phi = Math.acos(1 - 2 * t), theta = TAU * t * PHI.  Fiber 0 has
\* phi = theta = 0; phi is a quarter turn when t = 1/2; theta is an
\* irrational multiple of pi for every other fiber.
BaseAngles(fiber, fibers) ==
  IF fiber = 0
  THEN [sinPhi |-> "zero", cosPhi |-> "one", sinTheta |-> "zero", cosTheta |-> "one"]
  ELSE [sinPhi |-> IF 2 * fiber = fibers THEN "one" ELSE "fin",
        cosPhi |-> "fin", sinTheta |-> "fin", cosTheta |-> "fin"]

\* The base point of the first revision of createHopfFibration:
\* phi = Math.acos(2 * i / fibers - 1), theta = TAU * i / PHI.
BaseAnglesFirstRevision(fiber, fibers) ==
  [sinPhi |-> IF 2 * fiber = fibers THEN "one" ELSE "fin",
   cosPhi |-> "fin",
   sinTheta |-> IF fiber = 0 THEN "zero" ELSE "fin",
   cosTheta |-> IF fiber = 0 THEN "one" ELSE "fin"]

\* hopfMap(theta, phi, t): the point of the fiber, divided by its norm.
hopfMap ==
  [b \in Base, sinT \in Trig, cosT \in Trig |->
    LET baseX == Mul[b.sinPhi, b.cosTheta]
        baseY == Mul[b.sinPhi, b.sinTheta]
        x == Mul[cosT, baseX]
        y == Mul[cosT, baseY]
        z == Mul[sinT, baseX]
        w == Mul[sinT, baseY]
        norm == Sqrt[Add[Add[Mul[x, x], Mul[y, y]], Add[Mul[z, z], Mul[w, w]]]]
    IN  <<Div[x, norm], Div[y, norm], Div[z, norm], Div[w, norm]>>]

\* hopfToR4(theta, phi, phase)
hopfToR4 ==
  [b \in Base, sinPhase \in Trig, cosPhase \in Trig |->
    << Sub[Mul[Mul[b.cosTheta, b.cosPhi], cosPhase], Mul[b.sinTheta, sinPhase]],
       Add[Mul[Mul[b.cosTheta, b.cosPhi], sinPhase], Mul[b.sinTheta, cosPhase]],
       Mul[b.cosTheta, b.sinPhi],
       Mul[b.sinTheta, b.sinPhi] >>]

\* stereographicProjection(x, y, z, w): factor = 1 / (1 - w)
stereographicProjection ==
  [q \in Float \X Float \X Float \X Float |->
    LET factor == Div["one", Sub["one", q[4]]]
    IN  <<Mul[q[1], factor], Mul[q[2], factor], Mul[q[3], factor]>>]

HopfGens == {"createHopfFibration", "createHopfFibrationFirstRevision",
             "createHopfFibrationTubes", "createHopfFibrationRibbons",
             "createHopfFibrationWithBaseSphere"}

\* const fibers = Math.min(complexity, 50) (40 for the ribbons and the base
\* sphere variant); the first revision takes the complexity as it is.
HopfFibers(g, complexity) ==
  CASE g = "createHopfFibrationFirstRevision" -> complexity
    [] g \in {"createHopfFibrationRibbons", "createHopfFibrationWithBaseSphere"}
         -> Min(complexity, 40)
    [] OTHER -> Min(complexity, 50)

\* pointsPerFiber: 60; 100 in the first revision; Math.min(120, 120) for
\* the tubes as the scene calls them; 80 for the ribbons; 40 with the base sphere.
PointsPerFiber(g) ==
  CASE g = "createHopfFibration" -> 60
    [] g = "createHopfFibrationFirstRevision" -> 100
    [] g = "createHopfFibrationTubes" -> 120
    [] g = "createHopfFibrationRibbons" -> 80
    [] g = "createHopfFibrationWithBaseSphere" -> 40

\* The last sample of the fiber loop: j <= pointsPerFiber, and
\* t < pointsPerFiber in the first revision.
LastSample(g) ==
  IF g = "createHopfFibrationFirstRevision" THEN PointsPerFiber(g) - 1
  ELSE PointsPerFiber(g)

\* Every variant sampled with hopfMap.
Sample4DByHopfMap(g, fiber, fibers, j) ==
  hopfMap[BaseAngles(fiber, fibers), SinPhase(j, PointsPerFiber(g)), CosPhase(j, PointsPerFiber(g))]

\* The 4D point of sample j of a fiber.
Sample4D(g, fiber, fibers, j) ==
  LET n == PointsPerFiber(g)
  IN  CASE g \in {"createHopfFibration", "createHopfFibrationWithBaseSphere"}
             -> hopfMap[BaseAngles(fiber, fibers), SinPhase(j, n), CosPhase(j, n)]
        [] g = "createHopfFibrationFirstRevision"
             -> hopfToR4[BaseAnglesFirstRevision(fiber, fibers), SinPhase(j, n), CosPhase(j, n)]
        [] OTHER
             -> hopfToR4[BaseAngles(fiber, fibers), SinPhase(j, n), CosPhase(j, n)]

\* new THREE.Vector3(px * radius, py * radius, pz * radius)
Scaled ==
  [p \in Float \X Float \X Float, radius \in Float |->
    <<Mul[p[1], radius], Mul[p[2], radius], Mul[p[3], radius]>>]

ScaledPoint(g, fiber, fibers, j, radius) ==
  Scaled[stereographicProjection[Sample4D(g, fiber, fibers, j)], radius]

\* The three validations of a sample: the 4D point, the projection and
\* the scaled point are tested with isNaN, and the sample is skipped
\* (continue) when a test fires.
Validated ==
  [q \in Float \X Float \X Float \X Float, radius \in Float |->
    LET p == stereographicProjection[q]
        point == Scaled[p, radius]
    IN  /\ ~(isNaN(q[1]) \/ isNaN(q[2]) \/ isNaN(q[3]) \/ isNaN(q[4]))
        /\ ~(isNaN(p[1]) \/ isNaN(p[2]) \/ isNaN(p[3]))
        /\ ~(isNaN(point[1]) \/ isNaN(point[2]) \/ isNaN(point[3]))]

\* The first revision validates nothing.
SampleKept(g, fiber, fibers, j, radius) ==
  \/ g = "createHopfFibrationFirstRevision"
  \/ Validated[Sample4D(g, fiber, fibers, j), radius]

\* fiberPoints / centerPoints: the samples of one fiber that were pushed.
FiberPoints(g, fiber, fibers, radius) ==
  LET all == [k \in 1..(LastSample(g) + 1) |->
                [fiber |-> fiber, sample |-> k - 1,
                 pos |-> ScaledPoint(g, fiber, fibers, k - 1, radius)]]
      kept(s) == SampleKept(g, fiber, fibers, s.sample, radius)
  IN  SelectSeq(all, kept)

\* The line segments createHopfFibration pushes for one fiber of `len`
\* points when `prior` points were in the buffer before it: at point j
\* (j < len - 1), after the point was pushed,
\*   baseIndex = points.length / 3 - fiberPoints.length + j
\* and the pair (baseIndex, baseIndex + 1) is pushed.
FiberSegments(prior, len) ==
  [k \in 1..(2 * (len - 1)) |->
     LET j == (k - 1) \div 2
         baseIndex == (prior + j + 1) - len + j
     IN  baseIndex + ((k - 1) % 2)]

\* curve.getPoint(0.5) of the closed Catmull-Rom curve through the points is
\* a number exactly when the points are finite (a difference of infinite
\* coordinates is NaN).
PointFinite(s) == IsFinite(s.pos[1]) /\ IsFinite(s.pos[2]) /\ IsFinite(s.pos[3])

CurveValid(points) == \A k \in 1..Len(points) : PointFinite(points[k])

\* new THREE.TubeGeometry(curve, tubularSegments, radius, radialSegments, true):
\* a ring of radialSegments + 1 vertices at each of tubularSegments + 1
\* stations of the path, two triangles per quad.
TubeGeometry(fiber, path, tubularSegments, radialSegments) ==
  [kind |-> "tube", fiber |-> fiber, path |-> path,
   finite |-> CurveValid(path),
   vertexCount |-> (tubularSegments + 1) * (radialSegments + 1),
   indexCount |-> tubularSegments * radialSegments * 6]

\* Math.max(30, Math.floor(fiberPoints.length * 1.2)) tubular segments and
\* 12 radial ones; Math.max(20, fiberPoints.length) and 8 with the base sphere.
FiberTube(g, fiber, path) ==
  IF g = "createHopfFibrationTubes"
  THEN TubeGeometry(fiber, path, Max(30, (Len(path) * 12) \div 10), 12)
  ELSE TubeGeometry(fiber, path, Max(20, Len(path)), 8)

\* The guard left out: every fiber is handed on, however few points it has.
AnyPoints(path) == TRUE

\* if (fiberPoints.length >= 3)
EnoughPoints(path) == Len(path) >= 3

\* createRibbonGeometry(centerPoints, width, thickness): segment k joins
\* centerPoints[k] and centerPoints[k + 1]; a segment whose corner
\* vertices are NaN is skipped, which is the case exactly when one of its
\* two points is not finite; a kept segment pushes 4 vertices, and, when it
\* is not the last one, 8 triangles on base = 4 * k.
RibbonSegmentKept(centerPoints, k) ==
  PointFinite(centerPoints[k + 1]) /\ PointFinite(centerPoints[k + 2])

RibbonIndices(base) ==
  << base, base + 1, base + 4,      base + 1, base + 5, base + 4,
     base + 2, base + 6, base + 3,  base + 3, base + 6, base + 7,
     base, base + 4, base + 2,      base + 2, base + 4, base + 6,
     base + 1, base + 3, base + 5,  base + 3, base + 7, base + 5 >>

createRibbonGeometry(fiber, centerPoints) ==
  LET n == Len(centerPoints)
      segs == SelectSeq([k \in 1..(n - 1) |-> k - 1],
                        LAMBDA k : RibbonSegmentKept(centerPoints, k))
      indexed == SelectSeq(segs, LAMBDA k : k < n - 2)
  IN  [kind |-> "ribbon", fiber |-> fiber, path |-> centerPoints,
       finite |-> TRUE,
       vertexCount |-> 4 * Len(segs),
       indexCount |-> 24 * Len(indexed),
       indices |-> [m \in 1..(24 * Len(indexed)) |->
                      RibbonIndices(4 * indexed[((m - 1) \div 24) + 1])[((m - 1) % 24) + 1]]]

\* new THREE.SphereGeometry(radius * 0.3, 32, 16)
BaseSphere(radius) ==
  [kind |-> "sphere", fiber |-> -1, path |-> <<>>,
   finite |-> IsFinite(Mul[radius, "fin"]),
   vertexCount |-> (32 + 1) * (16 + 1),
   indexCount |-> 6 * 32 * (16 - 1)]

(***************************************************************************)
(* The Hopf generators, one fiber a step.                                  *)
(***************************************************************************)
HopfComplexities == {1, 2, 3, 10, 51}

HopfRadii == {"one", "fin", "inf"}

InitHopf ==
  /\ call \in [type : HopfGens, complexity : HopfComplexities, radius : HopfRadii]
  /\ gen = call.type
  /\ pc = IF call.type = "createHopfFibrationWithBaseSphere" THEN "sphere" ELSE "fibers"
  /\ i = 0
  /\ vertices = <<>>
  /\ indices = <<>>
  /\ group = <<>>
  /\ prev = NoMesh
  /\ store = initialState
  /\ scene = NoScene

\* if (showBaseSphere) group.add(baseSphere)
HopfBaseSphere ==
  /\ pc = "sphere"
  /\ group' = Append(group, BaseSphere(call.radius))
  /\ pc' = "fibers"
  /\ UNCHANGED <<call, gen, i, vertices, indices, prev, store, scene>>

\* One pass of the fiber loop of createHopfFibration.
HopfLineFiber ==
  /\ pc = "fibers"
  /\ gen = "createHopfFibration"
  /\ i < HopfFibers(gen, call.complexity)
  /\ LET fiberPoints == FiberPoints(gen, i, HopfFibers(gen, call.complexity), call.radius)
     IN  /\ vertices' = vertices \o fiberPoints
         /\ indices' = indices \o FiberSegments(Len(vertices), Len(fiberPoints))
  /\ i' = i + 1
  /\ UNCHANGED <<call, gen, pc, group, prev, store, scene>>

\* One pass of the fiber loop of the first revision: points only.
HopfPointFiber ==
  /\ pc = "fibers"
  /\ gen = "createHopfFibrationFirstRevision"
  /\ i < HopfFibers(gen, call.complexity)
  /\ vertices' = vertices \o FiberPoints(gen, i, HopfFibers(gen, call.complexity), call.radius)
  /\ i' = i + 1
  /\ UNCHANGED <<call, gen, pc, indices, group, prev, store, scene>>

\* One pass of the fiber loop of the tube variants.
HopfTubeFiber ==
  /\ pc = "fibers"
  /\ gen \in {"createHopfFibrationTubes", "createHopfFibrationWithBaseSphere"}
  /\ i < HopfFibers(gen, call.complexity)
  /\ LET fiberPoints == FiberPoints(gen, i, HopfFibers(gen, call.complexity), call.radius)
     IN  group' = IF EnoughPoints(fiberPoints) /\ CurveValid(fiberPoints)
                  THEN Append(group, FiberTube(gen, i, fiberPoints))
                  ELSE group
  /\ i' = i + 1
  /\ UNCHANGED <<call, gen, pc, vertices, indices, prev, store, scene>>

\* One pass of the fiber loop of createHopfFibrationRibbons.
HopfRibbonFiber ==
  /\ pc = "fibers"
  /\ gen = "createHopfFibrationRibbons"
  /\ i < HopfFibers(gen, call.complexity)
  /\ LET centerPoints == FiberPoints(gen, i, HopfFibers(gen, call.complexity), call.radius)
         ribbonGeometry == createRibbonGeometry(i, centerPoints)
     IN  group' = IF EnoughPoints(centerPoints) /\ ribbonGeometry.vertexCount > 0
                  THEN Append(group, ribbonGeometry)
                  ELSE group
  /\ i' = i + 1
  /\ UNCHANGED <<call, gen, pc, vertices, indices, prev, store, scene>>

HopfReturn ==
  /\ pc = "fibers"
  /\ gen \in HopfGens
  /\ i >= HopfFibers(gen, call.complexity)
  /\ pc' = "done"
  /\ UNCHANGED <<call, gen, i, vertices, indices, group, prev, store, scene>>

NextHopf ==
  \/ HopfBaseSphere
  \/ HopfLineFiber
  \/ HopfPointFiber
  \/ HopfTubeFiber
  \/ HopfRibbonFiber
  \/ HopfReturn

SpecHopf == InitHopf /\ [][NextHopf]_vars

\* Every position a finished Hopf generator has emitted.
EmittedFinite ==
  /\ \A k \in 1..Len(vertices) : PointFinite(vertices[k])
  /\ \A k \in 1..Len(group) : group[k].finite

\* C6: every Hopf sample with w = 1 or with non-finite projected or scaled
\* coordinates is detected and skipped, so that no Hopf generator emits a
\* position with a non-finite coordinate.
C6_NoNonFiniteEmitted ==
  (gen \in HopfGens /\ pc = "done") => EmittedFinite

\* C7: the Hopf tubes called with complexity 10 and the radius 1 the scene
\* passes return a group of exactly 10 sub-meshes, one for each of the
\* fibers 0..9, and the index count of each is a multiple of 3.
C7_TubesOnePerFiber ==
  (gen = "createHopfFibrationTubes" /\ call.complexity = 10 /\ call.radius = "one"
     /\ pc = "done")
  => /\ Len(group) = 10
     /\ \A k \in 1..10 : /\ group[k].fiber = k - 1
                         /\ group[k].indexCount % 3 = 0
                         /\ group[k].indexCount > 0

C7_Witness ==
  /\ gen = "createHopfFibrationTubes"
  /\ call.complexity = 10
  /\ call.radius = "one"
  /\ pc = "done"
  /\ Len(group) = 10
  /\ group[10].indexCount = 145 * 12 * 6

(***************************************************************************)
(* geometry.ts: createNeuronal, called twice with the same arguments.      *)
(* Math.random() is a choice among the values k / 2, k in MathRandom.     *)
(***************************************************************************)
MathRandom == {0, 1}

\* const nodes = Math.max(4, complexity * 2)
NeuronalNodes(complexity) == Max(4, complexity * 2)

\* const connections = Math.max(1, symmetry)
NeuronalConnections(symmetry) == Max(1, symmetry)

\* Node n at theta = (n / nodes) * 2 pi and phi = Math.acos(2 * random - 1),
\* random = r / 2.
NeuronalNode(n, r) == [node |-> n, phi |-> r]

\* const target = Math.floor(Math.random() * nodes), random = r / 2
NeuronalTarget(r, nodes) == (r * nodes) \div 2

NeuronalRequests == [type : {"neuronal"}, complexity : {1, 2}, symmetry : {0, 1}]

InitRepeat ==
  /\ call \in NeuronalRequests
  /\ gen = "createNeuronal"
  /\ pc = "vertices"
  /\ i = 0
  /\ vertices = <<>>
  /\ indices = <<>>
  /\ group = <<>>
  /\ prev = NoMesh
  /\ store = initialState
  /\ scene = NoScene

\* One pass of the node loop.
NeuronalNodeStep ==
  /\ gen = "createNeuronal"
  /\ pc = "vertices"
  /\ i < NeuronalNodes(call.complexity)
  /\ \E r \in MathRandom : vertices' = Append(vertices, NeuronalNode(i, r))
  /\ i' = i + 1
  /\ UNCHANGED <<call, gen, pc, indices, group, prev, store, scene>>

NeuronalNodesDone ==
  /\ gen = "createNeuronal"
  /\ pc = "vertices"
  /\ i >= NeuronalNodes(call.complexity)
  /\ pc' = "indices"
  /\ i' = 0
  /\ UNCHANGED <<call, gen, vertices, indices, group, prev, store, scene>>

\* One pass of the connection loops; i counts the (node, connection) pairs.
NeuronalConnectionStep ==
  /\ gen = "createNeuronal"
  /\ pc = "indices"
  /\ i < NeuronalNodes(call.complexity) * NeuronalConnections(call.symmetry)
  /\ \E r \in MathRandom :
       LET node == i \div NeuronalConnections(call.symmetry)
           target == NeuronalTarget(r, NeuronalNodes(call.complexity))
       IN  indices' = IF target # node THEN indices \o <<node, target>>
                      ELSE indices
  /\ i' = i + 1
  /\ UNCHANGED <<call, gen, pc, vertices, group, prev, store, scene>>

NeuronalReturn ==
  /\ gen = "createNeuronal"
  /\ pc = "indices"
  /\ i >= NeuronalNodes(call.complexity) * NeuronalConnections(call.symmetry)
  /\ pc' = "done"
  /\ UNCHANGED <<call, gen, i, vertices, indices, group, prev, store, scene>>

\* const vertices = []; const indices = []: each call allocates its arrays
\* itself, whatever the last call left in its own.
NewArray(left) == <<>>

\* The caller keeps the mesh and calls again with the same arguments.
NeuronalCallAgain ==
  /\ gen = "createNeuronal"
  /\ pc = "done"
  /\ prev = NoMesh
  /\ prev' = Mesh
  /\ pc' = "vertices"
  /\ i' = 0
  /\ vertices' = NewArray(vertices)
  /\ indices' = NewArray(indices)
  /\ UNCHANGED <<call, gen, group, store, scene>>

NextRepeat ==
  \/ NeuronalNodeStep
  \/ NeuronalNodesDone
  \/ NeuronalConnectionStep
  \/ NeuronalReturn
  \/ NeuronalCallAgain

SpecRepeat == InitRepeat /\ [][NextRepeat]_vars

\* C9: a second call with the same arguments returns the buffers of the
\* first call.
C9_SecondCallIdentical ==
  (gen = "createNeuronal" /\ pc = "done" /\ prev # NoMesh) => Mesh = prev

(***************************************************************************)
(* Claims about the n-cube generators                                      *)
(***************************************************************************)
\* The number of times vertex v is an endpoint in the index buffer.
Degree(buf, v) == Cardinality({k \in 1..Len(buf) : buf[k] = v})

\* C1: for every n-cube generator of dimension n the returned mesh has
\* exactly 2^n vertices and exactly n * 2^(n-1) edges (index pairs), and
\* every vertex is an endpoint of exactly n of them.
C1_NCubeCounts ==
  (pc = "done" /\ gen \in CubeGens) =>
    LET n == Dim(gen)
    IN  /\ Len(vertices) = Pow(2, n)
        /\ Len(indices) = 2 * n * Pow(2, n - 1)
        /\ \A v \in 0..(Len(vertices) - 1) : Degree(indices, v) = n

\* The dimension a request names: 'hyperCube' is the 4-cube, 'hyperND' the N-cube.
RequestedDimension(type) ==
  CASE type = "hyper3D" -> 3
    [] type = "hyperCube" -> 4
    [] type = "hyper5D" -> 5
    [] type = "hyper6D" -> 6
    [] type = "hyper7D" -> 7
    [] type = "hyper8D" -> 8
    [] type = "hyper9D" -> 9
    [] type = "hyper10D" -> 10
    [] type = "hyper11D" -> 11

\* C5: a request whose dimension is outside 3..10 is rejected: the call
\* routes to no generator and no vertex or index is ever produced for it.
C5_InvalidDimensionRejected ==
  (call.type \in CubeKinds \cup UnknownKinds /\ RequestedDimension(call.type) \notin 3..10)
  => (gen = "none" /\ vertices = <<>> /\ indices = <<>>)

(***************************************************************************)
(* mathGeometry.ts: the 'normal' attribute of the surface and curve        *)
(* generators.  A vector is kept as its class: "zero", "nonzero", "unit"   *)
(* or "nan".                                                               *)
(***************************************************************************)
\* THREE.Vector3.normalize(): divideScalar(this.length() || 1)
Normalize(v) ==
  CASE v = "nan" -> "nan"
    [] v = "zero" -> "zero"
    [] OTHER -> "unit"

\* tangent_u.cross(tangent_v) at grid point (i, j): the central differences
\* of the immersion are not parallel at any grid point.
KleinTangentCross(r, j) == "nonzero"

\* const normal = tangent_u.cross(tangent_v).normalize(); when it is NaN or
\* shorter than 0.1 the normalised spherical direction
\* (cos u cos v, sin u cos v, sin v) is pushed instead.
KleinNormal(r, j) ==
  LET normal == Normalize(KleinTangentCross(r, j))
  IN  IF normal = "nan" \/ normal = "zero" THEN Normalize("nonzero") ELSE normal

\* The 'normal' attribute of the returned geometry: createKleinBottle
\* pushes one normal a vertex; createMobiusStrip and createTorusKnot set
\* the attributes 'position' and 'color' only.
SurfaceNormals(g, verts) ==
  IF g = "createKleinBottle"
  THEN [k \in 1..Len(verts) |-> KleinNormal(verts[k][1], verts[k][2])]
  ELSE <<>>

\* C11: every vertex returned by the Klein bottle, Moebius strip and torus
\* knot generators has a normal, and the normal is finite and of unit length.
C11_UnitNormals ==
  (pc = "done" /\ gen \in {"createKleinBottle", "createMobiusStrip", "createTorusKnot"})
  => LET normals == SurfaceNormals(gen, vertices)
     IN  /\ Len(normals) = Len(vertices)
         /\ \A k \in 1..Len(normals) : normals[k] = "unit"

(***************************************************************************)
(* Claims about the topology of the index buffer                           *)
(***************************************************************************)
\* The number of leading entries of an index buffer that are the triangle
\* list of the six faces (pushed three at a time).
TriangleEntries(buf) ==
  IF Len(buf) >= Len(FaceTriangles(1))
     /\ SubSeq(buf, 1, Len(FaceTriangles(1))) = FaceTriangles(1)
  THEN Len(FaceTriangles(1))
  ELSE 0

\* The entries that follow them: the pairs the edge loop pushed.
LineEntries(buf) == Len(buf) - TriangleEntries(buf)

\* C12: a returned mesh has a single topology: its index buffer is entirely
\* line pairs (length a multiple of 2) or entirely triangles (length a
\* multiple of 3), never triangles and lines in one buffer.
C12_SingleTopology ==
  (pc = "done" /\ gen \in CubeGens)
  => \/ TriangleEntries(indices) = 0 /\ Len(indices) % 2 = 0
     \/ LineEntries(indices) = 0 /\ Len(indices) % 3 = 0

(***************************************************************************)
(* Claims about the recursion depth                                        *)
(***************************************************************************)
\* C13: whatever complexity is requested, the Sierpinski generator recurses
\* no deeper than 4 and the Koch generator no deeper than 5: a Sierpinski
\* mesh has at most 4^4 leaf tetrahedra (4 vertices each) and a Koch mesh
\* at most 3 * 4^5 clusters, none created below recursion level 5.
C13_DepthClamped ==
  pc = "done" =>
    /\ gen = "createFractal" => Len(vertices) <= 4 * Pow(4, 4)
    /\ gen = "createKochSnowflake" =>
         /\ Len(group) <= 3 * Pow(4, 5)
         /\ \A k \in 1..Len(group) : group[k].level <= 5

\* C13 witness: a complexity above both clamps was requested and the Koch
\* mesh returned has exactly 3 * 4^5 clusters, created at level 5.
C13_Witness ==
  /\ pc = "done"
  /\ gen = "createKochSnowflake"
  /\ call.complexity > 5
  /\ Len(group) = 3 * Pow(4, 5)
  /\ group[Len(group)].level = 5

(***************************************************************************)
(* Claims about the number of fibers                                       *)
(***************************************************************************)
\* The fibers that have contributed to the output so far: the fibers with a
\* point in the position buffer and the fibers with a sub-mesh in the group.
FibersEmitted ==
  {vertices[k].fiber : k \in 1..Len(vertices)}
    \cup {group[k].fiber : k \in {n \in 1..Len(group) : group[n].kind # "sphere"}}

\* C14: no Hopf generator produces more than 50 fibers, and the ribbon
\* variant no more than 40, however large the requested complexity.
C14_FiberCountClamped ==
  gen \in HopfGens =>
    /\ Cardinality(FibersEmitted) <= 50
    /\ gen = "createHopfFibrationRibbons" => Cardinality(FibersEmitted) <= 40

(***************************************************************************)
(* The controls panel, the application store and the scene's key handler.  *)
(* One browser event is handled at a time: a key press waits in            *)
(* scene.pending until keyHandler has run, and no other handler runs       *)
(* before it.                                                              *)
(***************************************************************************)
ControlsVersions == {"Controls.svelte", "part_005"}

\* const geometryTypes: GeometryType[] -- the options of the kind select.
geometryTypes(controls) ==
  {"hyperCube", "mandala", "vortex", "neuronal", "tesseract", "hypersphere",
   "hyper5D", "dmtTunnel", "soundResonance", "fractal", "quantumField",
   "hyper6D", "hyper7D", "hyper8D", "hyper9D", "hyper10D"}
  \cup (IF controls = "Controls.svelte"
        THEN {"hopfFibration", "goldenSpiral", "piSpiral", "kleinBottle",
              "mobiusStrip", "torusKnot"}
        ELSE {})

\* const dimensions = ['3D', '4D', ..., '10D', 'all']
dimensionModes == <<"3D", "4D", "5D", "6D", "7D", "8D", "9D", "10D", "all">>

\* dimensions.indexOf(mode), counted from 0 as Array.indexOf does.
indexOf(mode) == (CHOOSE k \in 1..Len(dimensionModes) : dimensionModes[k] = mode) - 1

\* <input type="range" min=.. max=..>: the values the slider can report.
ComplexitySlider(controls) == 1..10

SymmetrySlider(controls) ==
  IF controls = "Controls.svelte" THEN 1..10 ELSE 2..16

Keys == {"w", "s"}

\* Scene.svelte measures time with Date.now().  The model counts the time
\* since the last toggle and since the last interaction in units of 100 ms
\* and stops counting once the debounce time is exceeded.
TOGGLE_DEBOUNCE_TIME == 5

MIN_INTERACTION_INTERVAL == 2

UI_DEBOUNCE_TIME == 3

\* The component's local variables as declared, with scene, camera and
\* renderer passed in as props.  lastUpdate records what the last run of the
\* reactive block did to the mesh; pausedByDrag records that the drag in
\* progress switched auto-rotation off.  uiInteractionTimeout is the time left
\* on the timer, -1 when no timer is running.
SceneLocals(controls) ==
  [mounted |-> TRUE, controls |-> controls, pending |-> "none",
   isTransitioning |-> FALSE,
   geometryType |-> "hyperCube", mesh |-> FALSE, lastUpdate |-> "none",
   isDragging |-> FALSE, wasAutoRotating |-> FALSE,
   manualRotationActive |-> FALSE,
   isInteractingWithUI |-> FALSE, uiInteractionTimeout |-> -1,
   sinceLastToggle |-> TOGGLE_DEBOUNCE_TIME + 1,
   sinceLastInteraction |-> MIN_INTERACTION_INTERVAL + 1,
   pausedByDrag |-> FALSE]

\* JavaScript truthiness of a string and of a number.
TruthyString(value) == value # ""

TruthyNumber(value) == value # 0

\* updateGeometry: isGeometryTypeChange compares the component's geometryType
\* with the store's; the transition path replaces the mesh after the collapse,
\* the plain path removes and regenerates it at once.
updateGeometry(st, sc) ==
  IF ~sc.mounted THEN sc
  ELSE LET isGeometryTypeChange == sc.geometryType # st.geometryType
       IN  [sc EXCEPT !.geometryType = st.geometryType,
                      !.mesh = TRUE,
                      !.lastUpdate = IF isGeometryTypeChange /\ sc.mesh
                                     THEN "transition" ELSE "rebuild"]

\* The reactive block "Subscribe to store": it runs after every store update,
\* copies the store's fields into the component and calls updateGeometry when
\* newGeometryType || newComplexity || newSymmetry.
subscribeToStore(st, sc) ==
  LET newGeometryType == st.geometryType
      newComplexity == st.complexity
      newSymmetry == st.symmetry
      local == [sc EXCEPT !.geometryType = newGeometryType]
  IN  IF TruthyString(newGeometryType) \/ TruthyNumber(newComplexity)
         \/ TruthyNumber(newSymmetry)
      THEN updateGeometry(st, local)
      ELSE [local EXCEPT !.lastUpdate = "skipped"]

\* pauseAutoRotation and resumeAutoRotation act on the store and the scene
\* together: w is the pair of both.
pauseAutoRotation(w) ==
  IF w.scene.isInteractingWithUI THEN w
  ELSE IF w.store.autoRotateDimensions
          /\ w.scene.sinceLastInteraction > MIN_INTERACTION_INTERVAL
  THEN [store |-> [w.store EXCEPT !.autoRotateDimensions = ~@],
        scene |-> [w.scene EXCEPT !.sinceLastInteraction = 0,
                                  !.wasAutoRotating = TRUE]]
  ELSE w

resumeAutoRotation(w) ==
  IF w.scene.isInteractingWithUI THEN w
  ELSE IF ~w.store.autoRotateDimensions /\ w.scene.wasAutoRotating
  THEN IF w.scene.sinceLastToggle > TOGGLE_DEBOUNCE_TIME
       THEN [store |-> [w.store EXCEPT !.autoRotateDimensions = ~@],
             scene |-> [w.scene EXCEPT !.sinceLastToggle = 0,
                                       !.wasAutoRotating = FALSE]]
       ELSE [w EXCEPT !.scene.wasAutoRotating = FALSE]
  ELSE w

\* The scene is mounted: the reactive block has run, onMount has called
\* appStore.toggleDimensionRotation() and set lastToggleTime = Date.now().
InitControls ==
  /\ call = [version |-> "geometry.ts", type |-> initialState.geometryType,
             complexity |-> DefaultComplexity, symmetry |-> DefaultSymmetry]
  /\ gen = "none"
  /\ pc = "idle"
  /\ i = 0
  /\ vertices = <<>>
  /\ indices = <<>>
  /\ group = <<>>
  /\ prev = NoMesh
  /\ store = [initialState EXCEPT !.autoRotateDimensions = TRUE]
  /\ scene \in {subscribeToStore(store,
                    [SceneLocals(controls) EXCEPT !.sinceLastToggle = 0]) :
                  controls \in ControlsVersions}

\* handleGeometryTypeChange: an option outside geometryTypes is rejected.
handleGeometryTypeChange ==
  /\ scene.pending = "none"
  /\ \E type \in geometryTypes(scene.controls) :
       store' = [store EXCEPT !.geometryType = type]
  /\ scene' = subscribeToStore(store', scene)
  /\ UNCHANGED <<call, gen, pc, i, vertices, indices, group, prev>>

\* handleDimensionModeChange of Controls.svelte: appStore.setDimensionMode.
handleDimensionModeChange ==
  /\ scene.pending = "none"
  /\ scene.controls = "Controls.svelte"
  /\ \E k \in 1..Len(dimensionModes) :
       store' = [store EXCEPT !.dimensionMode = dimensionModes[k]]
  /\ scene' = subscribeToStore(store', scene)
  /\ UNCHANGED <<call, gen, pc, i, vertices, indices, group, prev>>

\* handleInputChange(event, 'complexity' | 'symmetry') of Controls.svelte:
\* appStore.setComplexity(parseInt(target.value)), no range test.
handleInputChange ==
  /\ scene.pending = "none"
  /\ scene.controls = "Controls.svelte"
  /\ \/ \E value \in ComplexitySlider(scene.controls) :
          store' = [store EXCEPT !.complexity = value]
     \/ \E value \in SymmetrySlider(scene.controls) :
          store' = [store EXCEPT !.symmetry = value]
  /\ scene' = subscribeToStore(store', scene)
  /\ UNCHANGED <<call, gen, pc, i, vertices, indices, group, prev>>

\* handleComplexityChange of part_005: if (isNaN(value) || value < 1 ||
\* value > 10) return.
handleComplexityChange ==
  /\ scene.pending = "none"
  /\ scene.controls = "part_005"
  /\ \E value \in ComplexitySlider(scene.controls) :
       /\ store' = IF value < 1 \/ value > 10 THEN store
                   ELSE [store EXCEPT !.complexity = value]
       /\ scene' = IF value < 1 \/ value > 10 THEN scene
                   ELSE subscribeToStore(store', scene)
  /\ UNCHANGED <<call, gen, pc, i, vertices, indices, group, prev>>

\* handleSymmetryChange of part_005: if (isNaN(value) || value < 3 ||
\* value > 12) return.
handleSymmetryChange ==
  /\ scene.pending = "none"
  /\ scene.controls = "part_005"
  /\ \E value \in SymmetrySlider(scene.controls) :
       /\ store' = IF value < 3 \/ value > 12 THEN store
                   ELSE [store EXCEPT !.symmetry = value]
       /\ scene' = IF value < 3 \/ value > 12 THEN scene
                   ELSE subscribeToStore(store', scene)
  /\ UNCHANGED <<call, gen, pc, i, vertices, indices, group, prev>>

\* togglePlayPause: appStore.togglePlay(); Controls.svelte also switches the
\* dimension rotation off when pausing.
togglePlayPause ==
  /\ scene.pending = "none"
  /\ LET newState == ~store.isPlaying
     IN  store' = [store EXCEPT
           !.isPlaying = newState,
           !.autoRotateDimensions =
              IF scene.controls = "Controls.svelte" /\ ~newState
                 /\ store.autoRotateDimensions
              THEN ~store.autoRotateDimensions
              ELSE store.autoRotateDimensions]
  /\ scene' = subscribeToStore(store', scene)
  /\ UNCHANGED <<call, gen, pc, i, vertices, indices, group, prev>>

\* toggleDimensionRotation: Controls.svelte toggles only in play mode.
toggleDimensionRotation ==
  /\ scene.pending = "none"
  /\ scene.controls = "Controls.svelte" => store.isPlaying
  /\ store' = [store EXCEPT
                 !.autoRotateDimensions = ~store.autoRotateDimensions]
  /\ scene' = subscribeToStore(store', scene)
  /\ UNCHANGED <<call, gen, pc, i, vertices, indices, group, prev>>

\* window keydown: the event waits for keyHandler.
KeyDown ==
  /\ scene.pending = "none"
  /\ \E key \in Keys : scene' = [scene EXCEPT !.pending = key]
  /\ UNCHANGED <<call, gen, pc, i, vertices, indices, group, prev, store>>

\* keyHandler.  Only when not playing and not in a transition: a rotation key
\* pauses and resumes auto-rotation, 'w' and 's' step the dimension mode.  The
\* scene's dimensionMode is the store's: the reactive block copies it on every
\* store update.
isRotationKey(key) ==
  key \in {"ArrowUp", "ArrowDown", "ArrowLeft", "ArrowRight", "z", "Z", "x", "X"}

keyHandler ==
  /\ scene.pending # "none"
  /\ LET key == scene.pending
         handled == [scene EXCEPT !.pending = "none"]
         dimensionMode == store.dimensionMode
         currentIndex == indexOf(dimensionMode)
         length == Len(dimensionModes)
     IN  IF store.isPlaying \/ scene.isTransitioning
         THEN store' = store /\ scene' = handled
         ELSE IF isRotationKey(key)
         THEN IF store.autoRotateDimensions /\ ~scene.isInteractingWithUI
              THEN LET w == resumeAutoRotation(pauseAutoRotation(
                                [store |-> store, scene |-> handled]))
                   IN  /\ store' = w.store
                       /\ scene' = subscribeToStore(w.store, w.scene)
              ELSE store' = store /\ scene' = handled
         ELSE IF key = "w" /\ dimensionMode # "all"
         THEN /\ store' = [store EXCEPT !.dimensionMode =
                             dimensionModes[((currentIndex + 1) % length) + 1]]
              /\ scene' = subscribeToStore(store', handled)
         ELSE IF key = "s" /\ dimensionMode # "3D"
         THEN /\ store' = [store EXCEPT !.dimensionMode =
                             dimensionModes[((currentIndex - 1 + length)
                                               % length) + 1]]
              /\ scene' = subscribeToStore(store', handled)
         ELSE store' = store /\ scene' = handled
  /\ UNCHANGED <<call, gen, pc, i, vertices, indices, group, prev>>

\* toggleAnnotations: appStore.toggleAnnotations().
toggleAnnotations ==
  /\ scene.pending = "none"
  /\ store' = [store EXCEPT !.showAnnotations = ~store.showAnnotations]
  /\ scene' = subscribeToStore(store', scene)
  /\ UNCHANGED <<call, gen, pc, i, vertices, indices, group, prev>>

NextControls ==
  \/ handleGeometryTypeChange
  \/ handleDimensionModeChange
  \/ handleInputChange
  \/ handleComplexityChange
  \/ handleSymmetryChange
  \/ togglePlayPause
  \/ toggleDimensionRotation
  \/ toggleAnnotations
  \/ KeyDown
  \/ keyHandler

SpecControls == InitControls /\ [][NextControls]_vars

\* C15: after any sequence of control inputs the store holds, for the next
\* generation request, an integer complexity of at least 1 and an integer
\* symmetry of at least 2.
C15_ComplexitySymmetryInRange ==
  scene.mounted =>
    /\ store.complexity \in Nat /\ store.complexity >= 1
    /\ store.symmetry \in Nat /\ store.symmetry >= 2

\* The mode after and before `mode` in the cyclic order 3D, 4D, ..., 10D, all.
NextMode(mode) ==
  dimensionModes[((indexOf(mode) + 1) % Len(dimensionModes)) + 1]

PrevMode(mode) ==
  dimensionModes[((indexOf(mode) - 1 + Len(dimensionModes))
                    % Len(dimensionModes)) + 1]

\* C19: each W key press changes the dimension mode to the next mode in the
\* order 3D, 4D, ..., 10D, all, and each S key press to the previous one,
\* wrapping around at the ends.
C19_KeysCycleModes ==
  [][/\ scene.pending = "w" /\ scene'.pending = "none"
        => store'.dimensionMode = NextMode(store.dimensionMode)
     /\ scene.pending = "s" /\ scene'.pending = "none"
        => store'.dimensionMode = PrevMode(store.dimensionMode)]_vars

\* C17: every kind the controls offer is routed by createGeometry to the
\* generator of that kind; none but hyperCube itself reaches the default
\* branch and is generated as a hypercube.
C17_SelectableKindsRouted ==
  (pc # "call" /\ call.type \in geometryTypes("Controls.svelte")
     /\ call.type # "hyperCube")
    => gen # "createHyperCube"

(***************************************************************************)
(* createTesseract: the sixteen corners of the 4-cube, segments^3 internal *)
(* vertices, and an edge pass over all of them.                            *)
(***************************************************************************)
\* const segments = Math.max(2, complexity)
Segments(complexity) == Max(2, complexity)

\* A corner before projection: (i & 2^k) ? size : -size on x, y, z, w.
TesseractCorner(n) == [kind |-> "corner", at |-> [k \in 0..3 |-> Coord(n, k)]]

\* The n-th internal vertex of the nested i, j, k loops.
TesseractInternal(n, segments) ==
  [kind |-> "internal",
   at |-> <<n \div (segments * segments), (n \div segments) % segments,
            n % segments>>]

\* The draws of Math.random() < 0.1 that come out true in one call are
\* capped; every placement of that many extra edges is explored.
MaxRandomEdges == 1

\* part_005 pushes two triangles for each of the six faceIndices before the
\* edge pass; geometry.ts has no faces.
TesseractFaceEntries(version) ==
  IF version = "part_005" THEN FaceTriangles(1) ELSE <<>>

\* The pairs of an edge list that countBits did not select; the list starts
\* after the first `from` entries of the buffer.
RandomEdges(buf, from) ==
  Cardinality({k \in 1..((Len(buf) - from) \div 2) :
                 countBits(XOR(buf[from + 2 * k - 1], buf[from + 2 * k])) # 1})

\* The inner loop for one i, with `extra` the js whose random draw was
\* below 0.1: if (countBits(i ^ j) === 1 || Math.random() < 0.1) push(i, j)
TesseractEdgesFrom(a, n, extra) ==
  LET cand == [k \in 1..(n - a - 1) |-> a + k]
      hit(j) == countBits(XOR(a, j)) = 1 \/ j \in extra
      js == SelectSeq(cand, hit)
  IN  [k \in 1..(2 * Len(js)) |-> IF k % 2 = 1 THEN a ELSE js[k \div 2]]

TesseractComplexities == {1, 2, 3}

InitTesseract ==
  /\ call \in [version : Versions, type : {"tesseract"},
               complexity : TesseractComplexities, symmetry : {DefaultSymmetry}]
  /\ gen = "none"
  /\ pc = "call"
  /\ i = 0
  /\ vertices = <<>>
  /\ indices = <<>>
  /\ group = <<>>
  /\ prev = NoMesh
  /\ store = initialState
  /\ scene = NoScene

\* for (let i = 0; i < Math.pow(2, 4); i++): one corner.
TesseractCornerStep ==
  /\ pc = "vertices"
  /\ gen = "createTesseract"
  /\ i < Pow(2, 4)
  /\ vertices' = Append(vertices, TesseractCorner(i))
  /\ i' = i + 1
  /\ UNCHANGED <<call, gen, pc, indices, group, prev, store, scene>>

\* The three nested loops over segments: all internal vertices.
TesseractInternalVertices ==
  /\ pc = "vertices"
  /\ gen = "createTesseract"
  /\ i = Pow(2, 4)
  /\ LET segments == Segments(call.complexity)
     IN  vertices' = vertices \o
           [n \in 1..(segments * segments * segments) |->
              TesseractInternal(n - 1, segments)]
  /\ pc' = "faces"
  /\ UNCHANGED <<call, gen, i, indices, group, prev, store, scene>>

\* part_005: two triangles for each of the six faceIndices.
TesseractFaces ==
  /\ pc = "faces"
  /\ indices' = TesseractFaceEntries(call.version)
  /\ pc' = "edges"
  /\ i' = 0
  /\ UNCHANGED <<call, gen, vertices, group, prev, store, scene>>

\* One iteration of the outer edge loop.
TesseractEdgeStep ==
  /\ pc = "edges"
  /\ gen = "createTesseract"
  /\ i < Len(vertices)
  /\ \E extra \in {{}} \cup
                   (IF RandomEdges(indices, Len(TesseractFaceEntries(call.version)))
                         < MaxRandomEdges
                    THEN {{j} : j \in {m \in (i + 1)..(Len(vertices) - 1) :
                                         countBits(XOR(i, m)) # 1}}
                    ELSE {}) :
       indices' = indices \o TesseractEdgesFrom(i, Len(vertices), extra)
  /\ i' = i + 1
  /\ UNCHANGED <<call, gen, pc, vertices, group, prev, store, scene>>

\* setAttribute / setIndex / return geometry.
TesseractReturn ==
  /\ pc = "edges"
  /\ gen = "createTesseract"
  /\ i = Len(vertices)
  /\ pc' = "done"
  /\ UNCHANGED <<call, gen, i, vertices, indices, group, prev, store, scene>>

NextTesseract ==
  \/ Dispatch
  \/ TesseractCornerStep
  \/ TesseractInternalVertices
  \/ TesseractFaces
  \/ TesseractEdgeStep
  \/ TesseractReturn

SpecTesseract == InitTesseract /\ [][NextTesseract]_vars

\* C18: the tesseract has exactly 16 vertices and exactly 32 edges, and the
\* edges join exactly the vertex pairs that differ in one coordinate.
C18_TesseractCounts ==
  (pc = "done" /\ gen = "createTesseract") =>
    /\ Len(vertices) = 16
    /\ Len(indices) = 2 * 32
    /\ {LinePair(indices, k) : k \in 1..(Len(indices) \div 2)}
         = {p \in (0..15) \X (0..15) :
              p[1] < p[2] /\ countBits(XOR(p[1], p[2])) = 1}

\* The entries the edge pass of an n-cube generator has pushed: the index
\* buffer after the face triangles that part_005 puts in front of them.
EdgePassEntries ==
  LET from == IF call.version = "part_005" THEN Len(FaceTriangles(1)) ELSE 0
  IN  SubSeq(indices, from + 1, Len(indices))

\* The pairs (a, j), a < j < 2^n, whose indices differ in exactly one bit:
\* j is a with one of its clear bits set.
OneBitPairs(n) ==
  {<<q[1], q[1] + Pow(2, q[2])>> :
     q \in {r \in (0..(Pow(2, n) - 1)) \X (0..(n - 1)) :
              (r[1] \div Pow(2, r[2])) % 2 = 0}}

\* C20: for every n-cube generator the edge pass emits the edge (i, j),
\* i < j, exactly once if i and j differ in exactly one bit, and emits no
\* edge for any other pair.
C20_EdgesExactlyOneBit ==
  (pc = "done" /\ gen \in CubeGens) =>
    LET edges == EdgePassEntries
        pairs == {LinePair(edges, k) : k \in 1..(Len(edges) \div 2)}
    IN  /\ Len(edges) % 2 = 0
        /\ pairs = OneBitPairs(Dim(gen))
        /\ Cardinality(pairs) = Len(edges) \div 2

C20_Witness ==
  /\ pc = "done"
  /\ gen = "create5DHyperCube"
  /\ Len(vertices) = 32
  /\ \E k \in 1..(Len(indices) \div 2) : LinePair(indices, k) = <<5, 21>>
  /\ ~ \E k \in 1..(Len(indices) \div 2) : LinePair(indices, k) = <<5, 6>>

\* What a createNeuronal call has pushed by itself at its current position:
\* one vertex per node handled, in node order, and at most one index pair
\* per (node, connection) pair handled, each joining two of its own nodes.
OwnBuffersOnly ==
  LET nodes == NeuronalNodes(call.complexity)
  IN  /\ Len(vertices) = IF pc = "vertices" THEN i ELSE nodes
      /\ \A k \in 1..Len(vertices) : vertices[k].node = k - 1
      /\ Len(indices) <= 2 * (CASE pc = "vertices" -> 0
                                [] pc = "indices" -> i
                                [] OTHER -> nodes * NeuronalConnections(call.symmetry))
      /\ \A k \in 1..Len(indices) : indices[k] \in 0..(nodes - 1)

\* C16: generating a mesh has no side effects.  A call reads only its
\* arguments, so the mesh it returns is fixed by them and a later call with
\* the same arguments returns the same vertices and indices; and it writes
\* only the buffers it allocated itself: its buffers hold what this call has
\* pushed and nothing left by the call before it, and the store and the
\* scene are not written.
C16_NoSideEffects ==
  gen = "createNeuronal" =>
    /\ OwnBuffersOnly
    /\ store = initialState /\ scene = NoScene
    /\ (pc = "done" /\ prev # NoMesh) =>
          /\ \A k \in 1..Len(vertices) : vertices[k] = prev.vertices[k]
          /\ indices = prev.indices

(***************************************************************************)
(* Claims about the fibers of the Hopf generators                          *)
(***************************************************************************)
\* The samples of a fiber that pass the three isNaN validations.
ValidSamples(g, fiber, fibers, radius) ==
  Cardinality({j \in 0..LastSample(g) :
                 Validated[Sample4D(g, fiber, fibers, j), radius]})

\* C21: in every Hopf variant a fiber that ends up with fewer than 3 valid
\* samples contributes nothing to the output: no vertex, no index and no
\* sub-mesh of the fibers handled so far belongs to it.
C21_ShortFibersDropped ==
  gen \in HopfGens =>
    \A f \in 0..(i - 1) :
      ValidSamples(gen, f, HopfFibers(gen, call.complexity), call.radius) < 3
        => /\ \A k \in 1..Len(vertices) : vertices[k].fiber # f
           /\ \A k \in 1..Len(indices) :
                indices[k] \in 0..(Len(vertices) - 1)
                  => vertices[indices[k] + 1].fiber # f
           /\ \A k \in 1..Len(group) : group[k].fiber # f

C21_Witness ==
  /\ gen = "createHopfFibrationWithBaseSphere"
  /\ call.complexity = 3
  /\ call.radius = "one"
  /\ pc = "done"
  /\ ValidSamples(gen, 0, 3, call.radius) = 0
  /\ Len(group) = 3
  /\ group[2].fiber = 1

\* The pairs (a, a + 1) of buffer positions that hold two successive kept
\* samples of one fiber.
SuccessiveSamplePairs ==
  {<<a, a + 1>> : a \in {b \in 0..(Len(vertices) - 2) :
                           vertices[b + 1].fiber = vertices[b + 2].fiber}}

\* C22: in the point/line Hopf fibration every emitted line segment joins
\* sample j and sample j + 1 of the same fiber, for each fiber and each j
\* from 0 to the number of valid samples of the fiber minus 2.
C22_SegmentsJoinSuccessiveSamples ==
  (gen = "createHopfFibration" /\ pc = "done") =>
    /\ Len(indices) = 2 * Cardinality(SuccessiveSamplePairs)
    /\ {LinePair(indices, k) : k \in 1..(Len(indices) \div 2)}
         = SuccessiveSamplePairs

\* C23: for every dimension n from 4 to 10, with half-size 2 and every
\* combination of signs on the extra axes, the perspective divisor used to
\* project a vertex is never zero.
C23_DivisorNeverZero ==
  gen \in CubeGens =>
    \A k \in 1..Len(vertices) : vertices[k][4] # 0

C23_Witness ==
  /\ gen = "create5DHyperCube"
  /\ pc = "vertices"
  /\ Len(vertices) = Pow(2, 5)
  /\ vertices[1] = <<-2, -2, -2, 2>>
  /\ vertices[Pow(2, 5)] = <<2, 2, 2, 10>>

\* The corners of the k-th triangle of the index buffer, as a set.
Corners(k) == {indices[3 * k - 2], indices[3 * k - 1], indices[3 * k]}

\* The number of triangles that have both x and y among their corners.
TrianglesOnEdge(x, y) ==
  Cardinality({k \in 1..(Len(indices) \div 3) : {x, y} \subseteq Corners(k)})

\* C24: the triangle mesh of the Klein bottle is closed: every triangle
\* edge is shared by exactly two triangles, each grid cell (i, j) being
\* split into the triangles (i,j),(i,j+1),(i+1,j) and (i,j+1),(i+1,j+1),(i+1,j).
C24_KleinBottleClosed ==
  (gen = "createKleinBottle" /\ pc = "done") =>
    LET steps == KleinSteps(call.complexity)
        at(p, q) == p * steps + q
    IN  /\ \A p \in 0..(steps - 2), q \in 0..(steps - 2) :
             LET cell == 2 * (p * (steps - 1) + q) + 1
             IN  /\ Triangle(indices, cell)
                      = <<at(p, q), at(p, q + 1), at(p + 1, q)>>
                 /\ Triangle(indices, cell + 1)
                      = <<at(p, q + 1), at(p + 1, q + 1), at(p + 1, q)>>
        /\ \A k \in 1..(Len(indices) \div 3) :
             \A x \in Corners(k), y \in Corners(k) :
               x < y => TrianglesOnEdge(x, y) = 2

\* C25: for integer complexity c >= 1 with d = min(c, 5) the Koch generator
\* emits exactly 3 * 4^d spike clusters, each made of one primary spike and
\* 4 + c / 2 (rounded down) secondary spikes, every spike having 5 vertices.
C25_KochClusterCounts ==
  (gen = "createKochSnowflake" /\ pc = "done" /\ call.complexity >= 1) =>
    LET c == call.complexity
        d == IF c < 5 THEN c ELSE 5
    IN  /\ Len(group) = 3 * Pow(4, d)
        /\ \A k \in 1..Len(group) :
             /\ group[k].kind = "cluster"
             /\ group[k].spikes = 1 + 4 + (c \div 2)
             /\ group[k].vertexCount = 5 * group[k].spikes

C25_Witness ==
  /\ gen = "createKochSnowflake"
  /\ pc = "done"
  /\ call.complexity = 3
  /\ Len(group) = 192
  /\ group[192].spikes = 6
  /\ group[192].vertexCount = 30

(***************************************************************************)
(* The scene's mouse handlers and the auto-rotation they pause and resume. *)
(* Time passes in steps of 100 ms between the events.                      *)
(***************************************************************************)
RotationKeys == {"ArrowUp", "z"}

\* Date.now() advances by 100 ms; a timer that is due fires first.
Tick ==
  /\ scene.pending = "none"
  /\ scene.uiInteractionTimeout # 0
  /\ scene' = [scene EXCEPT
       !.sinceLastToggle =
          IF @ > TOGGLE_DEBOUNCE_TIME THEN @ ELSE @ + 1,
       !.sinceLastInteraction =
          IF @ > MIN_INTERACTION_INTERVAL THEN @ ELSE @ + 1,
       !.uiInteractionTimeout = IF @ > 0 THEN @ - 1 ELSE @]
  /\ UNCHANGED <<call, gen, pc, i, vertices, indices, group, prev, store>>

\* The callback of uiInteractionTimeout: isInteractingWithUI = false.
uiInteractionTimeoutFires ==
  /\ scene.pending = "none"
  /\ scene.uiInteractionTimeout = 0
  /\ scene' = [scene EXCEPT !.isInteractingWithUI = FALSE,
                            !.uiInteractionTimeout = -1]
  /\ UNCHANGED <<call, gen, pc, i, vertices, indices, group, prev, store>>

\* handleMouseDown: a press on a UI element starts the UI debounce (clearing
\* a running timer and starting a new one); a press on the scene starts a drag
\* and calls pauseAutoRotation.
handleMouseDown ==
  /\ scene.pending = "none"
  /\ \E isUIElement \in BOOLEAN :
       IF isUIElement
       THEN /\ scene' = [scene EXCEPT
                 !.isInteractingWithUI = TRUE,
                 !.uiInteractionTimeout = UI_DEBOUNCE_TIME]
            /\ store' = store
       ELSE LET w == pauseAutoRotation(
                       [store |-> store,
                        scene |-> [scene EXCEPT !.isDragging = TRUE]])
                paused == w.store # store
                dragging == [w.scene EXCEPT !.pausedByDrag =
                               (scene.isDragging /\ @) \/ paused]
            IN  /\ store' = w.store
                /\ scene' = IF paused THEN subscribeToStore(w.store, dragging)
                            ELSE dragging
  /\ UNCHANGED <<call, gen, pc, i, vertices, indices, group, prev>>

\* The body handleMouseUp and handleMouseLeave share: if (isDragging)
\* { isDragging = false; resumeAutoRotation(); }
EndDrag ==
  IF scene.isDragging
  THEN LET w == resumeAutoRotation(
                  [store |-> store,
                   scene |-> [scene EXCEPT !.isDragging = FALSE,
                                           !.pausedByDrag = FALSE]])
       IN  /\ store' = w.store
           /\ scene' = IF w.store # store
                       THEN subscribeToStore(w.store, w.scene)
                       ELSE w.scene
  ELSE UNCHANGED <<store, scene>>

handleMouseUp ==
  /\ scene.pending = "none"
  /\ EndDrag
  /\ UNCHANGED <<call, gen, pc, i, vertices, indices, group, prev>>

handleMouseLeave ==
  /\ scene.pending = "none"
  /\ EndDrag
  /\ UNCHANGED <<call, gen, pc, i, vertices, indices, group, prev>>

\* window keydown with a rotation key: the event waits for keyHandler.
RotationKeyDown ==
  /\ scene.pending = "none"
  /\ \E key \in RotationKeys : scene' = [scene EXCEPT !.pending = key]
  /\ UNCHANGED <<call, gen, pc, i, vertices, indices, group, prev, store>>

\* update: applyHyperRotation runs in a frame when this holds.
AutoRotationApplied ==
  /\ scene.mesh
  /\ store.autoRotateDimensions
  /\ ~scene.manualRotationActive
  /\ store.isPlaying

NextScene ==
  \/ handleMouseDown
  \/ handleMouseUp
  \/ handleMouseLeave
  \/ Tick
  \/ uiInteractionTimeoutFires
  \/ togglePlayPause
  \/ toggleDimensionRotation
  \/ RotationKeyDown
  \/ keyHandler

SpecScene == InitControls /\ [][NextScene]_vars

\* C26: if auto-rotation is on when a scene drag starts and the drag pauses
\* it, then at the end of the drag (mouse up or mouse leave) auto-rotation is
\* switched on again, whatever the timing of the press and the release.
C26_DragEndResumesAutoRotation ==
  [][(scene.isDragging /\ scene.pausedByDrag /\ ~scene'.isDragging)
       => store'.autoRotateDimensions]_vars

\* C27: while a scene drag is in progress auto-rotation is off, so automatic
\* and manual rotation are never applied to the mesh at the same time.
C27_NoAutoRotationWhileDragging ==
  scene.isDragging => ~store.autoRotateDimensions /\ ~AutoRotationApplied

\* C28: after any sequence of control clicks and scene mouse or keyboard
\* events, autoRotateDimensions true implies isPlaying true (Controls.svelte).
C28_AutoRotationOnlyWhilePlaying ==
  scene.controls = "Controls.svelte" =>
    (store.autoRotateDimensions => store.isPlaying)

\* C29: a store update that changes none of geometry type, complexity and
\* symmetry (toggling play, annotations or auto-rotation, changing the
\* dimension mode) does not remove and regenerate the scene mesh.
C29_OtherUpdatesKeepMesh ==
  [][(/\ store' # store
      /\ store'.geometryType = store.geometryType
      /\ store'.complexity = store.complexity
      /\ store'.symmetry = store.symmetry)
       => scene'.lastUpdate \notin {"rebuild", "transition"}]_vars

\* C30: when the store's geometry type changes to a different value,
\* updateGeometry takes the transition path (collapse the old mesh, replace
\* it, expand the new one) and not the plain rebuild path.
C30_TypeChangeTakesTransitionPath ==
  [][store'.geometryType # store.geometryType
       => scene'.lastUpdate = "transition"]_vars

====
